---- MODULE Spec2Model ----
(***************************************************************************)
(* A model of the etc-os-release crate: the line parser (src/entry.rs),    *)
(* the Document builder (src/construct.rs) and the accessors               *)
(* (src/fields.rs).                                                        *)
(*                                                                         *)
(* Text is a sequence of one-character strings.  Option<T> is a sequence   *)
(* of length 0 (None) or 1 (Some).                                         *)
(***************************************************************************)
EXTENDS Integers, Sequences, FiniteSets, TLC

VARIABLES
    line,     \* the &str handed to OsReleaseLine::from_str
    lpc,      \* position of the line-parsing call: "start", "parsed", "done"
    parsed,   \* the OsReleaseLine returned by from_str
    entry,    \* the Option<OsReleaseEntry> returned by into_entry
    lines,    \* the lines the iterator has yielded to FromIterator so far
    fields,   \* OsRelease.fields: the IndexMap, as a sequence of slots
    pc,       \* "collecting" while from_iter runs, "built" once it returned
    ret,      \* the last accessor call and what it returned
    src,      \* the lines the caller constructs an OsRelease from
    fsys,     \* the candidate paths that exist in the file system
    results,  \* what each constructor returned
    cpc,      \* position of open / from_reader: "idle", "opening", "reading"
    call,     \* the constructor that is running
    probed,   \* the paths os_release_path has called exists() on
    opens,    \* the paths File::open has been called on
    text,     \* the part of the reader's content that is not read yet
    partial,  \* the map collect() has built from the lines read so far
    reads     \* the outcome of each read of a line, in order

ioVars == <<src, fsys, results, cpc, call, probed, opens, text, partial, reads>>

vars == <<line, lpc, parsed, entry, lines, fields, pc, ret, ioVars>>

lineVars == <<line, lpc, parsed, entry>>
docVars == <<lines, fields, pc, ret>>

(***************************************************************************)
(* Bounds.                                                                 *)
(***************************************************************************)
MaxLen == 5
MaxLines == 3

(***************************************************************************)
(* Characters.                                                             *)
(***************************************************************************)
DQ == "\""
SQ == "'"
BS == "\\"
EQ == "="
HASH == "#"
SP == " "

Alphabet == {"A", EQ, HASH, DQ, SQ, BS, SP}

None == <<>>
Some(v) == <<v>>

(***************************************************************************)
(* str helpers of the standard library, as parse_line uses them.           *)
(***************************************************************************)
is_empty(s) == Len(s) = 0

starts_with(s, c) == Len(s) > 0 /\ s[1] = c

ends_with(s, c) == Len(s) > 0 /\ s[Len(s)] = c

\* str::strip_prefix: Some(rest) when s starts with c.
strip_prefix(s, c) ==
    IF starts_with(s, c) THEN Some(SubSeq(s, 2, Len(s))) ELSE None

\* str::strip_suffix: Some(rest) when s ends with c.
strip_suffix(s, c) ==
    IF ends_with(s, c) THEN Some(SubSeq(s, 1, Len(s) - 1)) ELSE None

\* Option::unwrap_or
unwrap_or(opt, default) == IF opt = None THEN default ELSE opt[1]

\* The index of the first c in s at or after position i, 0 when there is none.
RECURSIVE find_from(_, _, _)
find_from(s, c, i) ==
    IF i > Len(s) THEN 0
    ELSE IF s[i] = c THEN i
    ELSE find_from(s, c, i + 1)

\* The index of the last c in s at or before position i, 0 when there is none.
RECURSIVE rfind_from(_, _, _)
rfind_from(s, c, i) ==
    IF i < 1 THEN 0
    ELSE IF s[i] = c THEN i
    ELSE rfind_from(s, c, i - 1)

\* A bug: the split is made at the last delimiter (rsplit_once).
rsplit_once(s, c) ==
    LET i == rfind_from(s, c, Len(s)) IN
    IF i = 0 THEN None
    ELSE Some(<<SubSeq(s, 1, i - 1), SubSeq(s, i + 1, Len(s))>>)

\* str::split_once: Some((before, after)) around the first c, None without c.
split_once(s, c) ==
    LET i == find_from(s, c, 1) IN
    IF i = 0 THEN None
    ELSE Some(<<SubSeq(s, 1, i - 1), SubSeq(s, i + 1, Len(s))>>)

(***************************************************************************)
(* src/entry.rs                                                            *)
(***************************************************************************)
\* OsReleaseEntry::new
OsReleaseEntry(k, v) == [key |-> k, value |-> v]

NoQuote == "None"

quotes == <<DQ, SQ>>

\* A bug: when the closing quote is missing, the text is returned with its
\* opening quote (unwrap_or of the outer value).
RECURSIVE trim_quote_keep(_, _)
trim_quote_keep(value, i) ==
    IF i > Len(quotes) THEN [value |-> value, quote |-> NoQuote]
    ELSE LET quote == quotes[i]
             stripped == strip_prefix(value, quote)
         IN  IF stripped # None
             THEN [value |-> unwrap_or(strip_suffix(stripped[1], quote), value),
                   quote |-> quote]
             ELSE trim_quote_keep(value, i + 1)

\* A bug: a closing quote that follows a backslash is taken as escaped and
\* is not removed.
RECURSIVE trim_quote_escaped(_, _)
trim_quote_escaped(value, i) ==
    IF i > Len(quotes) THEN [value |-> value, quote |-> NoQuote]
    ELSE LET quote == quotes[i]
             stripped == strip_prefix(value, quote)
         IN  IF stripped # None
             THEN [value |-> IF Len(stripped[1]) >= 2
                                 /\ stripped[1][Len(stripped[1]) - 1] = BS
                             THEN stripped[1]
                             ELSE unwrap_or(strip_suffix(stripped[1], quote), stripped[1]),
                   quote |-> quote]
             ELSE trim_quote_escaped(value, i + 1)

\* The loop of trim_quote over the quote characters, from the i-th on.
RECURSIVE trim_quote_loop(_, _)
trim_quote_loop(value, i) ==
    IF i > Len(quotes) THEN [value |-> value, quote |-> NoQuote]
    ELSE LET quote == quotes[i]
             stripped == strip_prefix(value, quote)
         IN  IF stripped # None
             THEN [value |-> unwrap_or(strip_suffix(stripped[1], quote), stripped[1]),
                   quote |-> quote]
             ELSE trim_quote_loop(value, i + 1)

trim_quote(value) == trim_quote_loop(value, 1)

\* A bug: the backslash is copied to the output as well.
RECURSIVE unescape_keep(_, _, _, _)
unescape_keep(value, i, output, escaped) ==
    IF i > Len(value) THEN output
    ELSE LET c == value[i] IN
         IF escaped THEN unescape_keep(value, i + 1, Append(output, c), FALSE)
         ELSE IF c = BS THEN unescape_keep(value, i + 1, Append(output, c), TRUE)
         ELSE unescape_keep(value, i + 1, Append(output, c), FALSE)

\* The loop of unescape: the i-th character with the output and the flag.
RECURSIVE unescape_loop(_, _, _, _)
unescape_loop(value, i, output, escaped) ==
    IF i > Len(value) THEN output
    ELSE LET c == value[i] IN
         IF escaped THEN unescape_loop(value, i + 1, Append(output, c), FALSE)
         ELSE IF c = BS THEN unescape_loop(value, i + 1, output, TRUE)
         ELSE unescape_loop(value, i + 1, Append(output, c), FALSE)

unescape(value) == unescape_loop(value, 1, <<>>, FALSE)

\* The text without the spaces at its ends.
RECURSIVE trim(_)
trim(s) ==
    IF s # <<>> /\ Head(s) = SP THEN trim(Tail(s))
    ELSE IF s # <<>> /\ s[Len(s)] = SP THEN trim(SubSeq(s, 1, Len(s) - 1))
    ELSE s

\* A bug: the key is trimmed.
parse_line_trim_key(l) ==
    IF is_empty(l) \/ starts_with(l, HASH) THEN None
    ELSE LET kv == split_once(l, EQ) IN
         IF kv = None THEN None
         ELSE LET t == trim_quote(kv[1][2]) IN
              Some(OsReleaseEntry(trim(kv[1][1]),
                   IF t.quote = SQ THEN t.value ELSE unescape(t.value)))

\* A bug: a line with an empty key is skipped.
parse_line_skip_empty_key(l) ==
    IF is_empty(l) \/ starts_with(l, HASH) THEN None
    ELSE LET kv == split_once(l, EQ) IN
         IF kv = None \/ kv[1][1] = <<>> THEN None
         ELSE LET t == trim_quote(kv[1][2]) IN
              Some(OsReleaseEntry(kv[1][1],
                   IF t.quote = SQ THEN t.value ELSE unescape(t.value)))

\* A bug: only empty lines are skipped, comments are parsed.
parse_line_nocomment(l) ==
    IF is_empty(l) THEN None
    ELSE LET kv == split_once(l, EQ) IN
         IF kv = None THEN None
         ELSE LET t == trim_quote(kv[1][2]) IN
              Some(OsReleaseEntry(kv[1][1],
                   IF t.quote = SQ THEN t.value ELSE unescape(t.value)))

\* A bug: single-quoted values are unescaped like the others.
parse_line_unescape_all(l) ==
    IF is_empty(l) \/ starts_with(l, HASH) THEN None
    ELSE LET kv == split_once(l, EQ) IN
         IF kv = None THEN None
         ELSE LET t == trim_quote(kv[1][2]) IN
              Some(OsReleaseEntry(kv[1][1], unescape(t.value)))

parse_line(l) ==
    IF is_empty(l) \/ starts_with(l, HASH) THEN None
    ELSE LET kv == split_once(l, EQ) IN
         IF kv = None THEN None
         ELSE LET t == trim_quote(kv[1][2]) IN
              Some(OsReleaseEntry(kv[1][1],
                   IF t.quote = SQ THEN t.value ELSE unescape(t.value)))

\* OsReleaseLine
Empty == [kind |-> "Empty"]
Entry(e) == [kind |-> "Entry", entry |-> e]

\* <OsReleaseLine as FromStr>::from_str; the error type is Infallible.
OsReleaseLine_from_str(s) ==
    LET r == parse_line(s) IN IF r = None THEN Empty ELSE Entry(r[1])

\* OsReleaseLine::into_entry
into_entry(l) == IF l.kind = "Empty" THEN None ELSE Some(l.entry)

(***************************************************************************)
(* OsRelease.fields is an IndexMap<String, String>: a sequence of slots    *)
(* [key, value] with unique keys, in insertion order (src/lib.rs).         *)
(***************************************************************************)
\* The slot of key k in the map m, 0 when the key is not in the map.
get_index_of(m, k) ==
    IF \E i \in 1..Len(m) : m[i].key = k
    THEN CHOOSE i \in 1..Len(m) : m[i].key = k
    ELSE 0

\* A bug: an insertion of a key that is in the map is ignored (first wins).
insert_keep_first(m, k, v) ==
    IF get_index_of(m, k) # 0 THEN m
    ELSE Append(m, [key |-> k, value |-> v])

\* A bug: a key that is in the map is removed and inserted at the end.
insert_move_to_end(m, k, v) ==
    LET i == get_index_of(m, k) IN
    IF i # 0
    THEN Append(SubSeq(m, 1, i - 1) \o SubSeq(m, i + 1, Len(m)), [key |-> k, value |-> v])
    ELSE Append(m, [key |-> k, value |-> v])

\* IndexMap::insert: a key that is in the map keeps its slot and takes the
\* new value, a new key goes to the end.
insert(m, k, v) ==
    LET i == get_index_of(m, k) IN
    IF i # 0 THEN [m EXCEPT ![i] = [key |-> k, value |-> v]]
    ELSE Append(m, [key |-> k, value |-> v])

\* IndexMap::get
get(m, k) ==
    LET i == get_index_of(m, k) IN
    IF i # 0 THEN Some(m[i].value) ELSE None

(***************************************************************************)
(* src/construct.rs                                                        *)
(***************************************************************************)
\* The closure of filter_map in FromIterator<&str> and FromIterator<String>.
line_to_entry(l) == into_entry(OsReleaseLine_from_str(l))

\* One step of FromIterator<OsReleaseEntry>: the entry becomes a pair of
\* owned strings and collect() inserts it into the map.
collect_entry(m, e) == insert(m, e.key, e.value)

\* One step of FromIterator<&str>: a line that is no entry is filtered out.
collect_line(m, l) ==
    LET e == line_to_entry(l) IN
    IF e = None THEN m ELSE collect_entry(m, e[1])

\* FromIterator<&str>::from_iter, and FromIterator<String>::from_iter, over
\* the lines ls from the i-th on, with the map m collected so far.
RECURSIVE from_iter_loop(_, _, _)
from_iter_loop(ls, i, m) ==
    IF i > Len(ls) THEN m
    ELSE from_iter_loop(ls, i + 1, collect_line(m, ls[i]))

from_iter(ls) == from_iter_loop(ls, 1, <<>>)

(***************************************************************************)
(* src/fields.rs: the generic accessors.                                   *)
(***************************************************************************)
Ok(v) == [ok |-> TRUE, val |-> v]
Err(e) == [ok |-> FALSE, err |-> e]

\* OsRelease::entries
entries(f) == [i \in 1..Len(f) |-> OsReleaseEntry(f[i].key, f[i].value)]

\* OsRelease::get_value
get_value(f, key) == get(f, key)

Whitespace == {SP, "\t"}

\* A bug: the text is split at every whitespace character (split(' ')), so
\* that empty tokens come out.
RECURSIVE split_each_loop(_, _, _, _)
split_each_loop(s, i, out, cur) ==
    IF i > Len(s) THEN Append(out, cur)
    ELSE IF s[i] \in Whitespace
         THEN split_each_loop(s, i + 1, Append(out, cur), <<>>)
         ELSE split_each_loop(s, i + 1, out, Append(cur, s[i]))

\* str::split_whitespace: the i-th character, the tokens so far and the
\* token being read.
RECURSIVE split_whitespace_loop(_, _, _, _)
split_whitespace_loop(s, i, out, cur) ==
    IF i > Len(s) THEN (IF cur = <<>> THEN out ELSE Append(out, cur))
    ELSE IF s[i] \in Whitespace
         THEN split_whitespace_loop(s, i + 1,
                  IF cur = <<>> THEN out ELSE Append(out, cur), <<>>)
         ELSE split_whitespace_loop(s, i + 1, out, Append(cur, s[i]))

split_whitespace(s) == split_whitespace_loop(s, 1, <<>>, <<>>)

\* OsRelease::get_value_as_list
get_value_as_list(f, key) ==
    LET v == get_value(f, key) IN
    IF v = None THEN None ELSE Some(split_whitespace(v[1]))

Letters ==
    {"a", "b", "c", "d", "e", "f", "g", "h", "i", "j", "k", "l", "m",
     "n", "o", "p", "q", "r", "s", "t", "u", "v", "w", "x", "y", "z",
     "A", "B", "C", "D", "E", "F", "G", "H", "I", "J", "K", "L", "M",
     "N", "O", "P", "Q", "R", "S", "T", "U", "V", "W", "X", "Y", "Z"}

DigitChars == <<"0", "1", "2", "3", "4", "5", "6", "7", "8", "9">>

Digits == {DigitChars[i] : i \in 1..10}

DigitVal(c) == (CHOOSE i \in 1..10 : DigitChars[i] = c) - 1

\* Url::parse without a base: the text needs a scheme (a letter, then
\* letters, digits, "+", "-", "."), closed by ":".
Url_parse(s) ==
    LET i == find_from(s, ":", 1) IN
    IF /\ i > 1
       /\ s[1] \in Letters
       /\ \A j \in 2..(i - 1) : s[j] \in Letters \cup Digits \cup {"+", "-", "."}
    THEN Ok([scheme |-> SubSeq(s, 1, i - 1), rest |-> SubSeq(s, i + 1, Len(s))])
    ELSE Err("RelativeUrlWithoutBase")

\* A bug: a value that does not parse counts as absent.
get_value_as_url_lenient(f, key) ==
    LET v == get_value(f, key) IN
    IF v = None THEN Ok(None)
    ELSE LET r == Url_parse(v[1]) IN
         IF r.ok THEN Ok(Some(r.val)) ELSE Ok(None)

\* OsRelease::get_value_as_url: Option::map, then Option::transpose.
get_value_as_url(f, key) ==
    LET v == get_value(f, key) IN
    IF v = None THEN Ok(None)
    ELSE LET r == Url_parse(v[1]) IN
         IF r.ok THEN Ok(Some(r.val)) ELSE r

\* The number read from the digits of s at i, at most max of them.
RECURSIVE scan_number(_, _, _, _)
scan_number(s, i, max, acc) ==
    IF max > 0 /\ i <= Len(s) /\ s[i] \in Digits
    THEN scan_number(s, i + 1, max - 1, 10 * acc + DigitVal(s[i]))
    ELSE [val |-> acc, next |-> i]

days_in_month(y, m) ==
    IF m = 2
    THEN (IF (y % 4 = 0 /\ y % 100 # 0) \/ y % 400 = 0 THEN 29 ELSE 28)
    ELSE IF m \in {4, 6, 9, 11} THEN 30 ELSE 31

\* NaiveDate::parse_from_str(s, "%Y-%m-%d")
NaiveDate_parse_from_str(s) ==
    LET y == scan_number(s, 1, 4, 0)
        m == scan_number(s, y.next + 1, 2, 0)
        d == scan_number(s, m.next + 1, 2, 0)
    IN  IF /\ y.next > 1
           /\ y.next <= Len(s) /\ s[y.next] = "-"
           /\ m.next > y.next + 1
           /\ m.next <= Len(s) /\ s[m.next] = "-"
           /\ d.next > m.next + 1
           /\ d.next = Len(s) + 1
           /\ m.val \in 1..12
           /\ d.val \in 1..days_in_month(y.val, m.val)
        THEN Ok([year |-> y.val, month |-> m.val, day |-> d.val])
        ELSE Err("ParseError")

\* OsRelease::get_value_as_date: Option::map, then Option::transpose.
get_value_as_date(f, key) ==
    LET v == get_value(f, key) IN
    IF v = None THEN Ok(None)
    ELSE LET r == NaiveDate_parse_from_str(v[1]) IN
         IF r.ok THEN Ok(Some(r.val)) ELSE r

(***************************************************************************)
(* src/fields.rs: the named accessors.                                     *)
(***************************************************************************)
\* A bug: the default of NAME is the one of PRETTY_NAME.
name_Linux(f) == unwrap_or(get_value(f, <<"N", "A", "M", "E">>), <<"L", "i", "n", "u", "x">>)

name(f) == unwrap_or(get_value(f, <<"N", "A", "M", "E">>), <<"l", "i", "n", "u", "x">>)

\* A bug: an empty ID counts as not set.
id_nonempty(f) ==
    LET v == get_value(f, <<"I", "D">>) IN
    IF v = None \/ v = Some(<<>>) THEN <<"l", "i", "n", "u", "x">> ELSE v[1]

id(f) == unwrap_or(get_value(f, <<"I", "D">>), <<"l", "i", "n", "u", "x">>)

pretty_name(f) == unwrap_or(get_value(f, <<"P", "R", "E", "T", "T", "Y", "_", "N", "A", "M", "E">>), <<"L", "i", "n", "u", "x">>)

id_like(f) == get_value_as_list(f, <<"I", "D", "_", "L", "I", "K", "E">>)

cpe_name(f) == get_value(f, <<"C", "P", "E", "_", "N", "A", "M", "E">>)

variant(f) == get_value(f, <<"V", "A", "R", "I", "A", "N", "T">>)

variant_id(f) == get_value(f, <<"V", "A", "R", "I", "A", "N", "T", "_", "I", "D">>)

version(f) == get_value(f, <<"V", "E", "R", "S", "I", "O", "N">>)

version_id(f) == get_value(f, <<"V", "E", "R", "S", "I", "O", "N", "_", "I", "D">>)

version_codename(f) == get_value(f, <<"V", "E", "R", "S", "I", "O", "N", "_", "C", "O", "D", "E", "N", "A", "M", "E">>)

build_id(f) == get_value(f, <<"B", "U", "I", "L", "D", "_", "I", "D">>)

image_id(f) == get_value(f, <<"I", "M", "A", "G", "E", "_", "I", "D">>)

image_version(f) == get_value(f, <<"I", "M", "A", "G", "E", "_", "V", "E", "R", "S", "I", "O", "N">>)

home_url(f) == get_value_as_url(f, <<"H", "O", "M", "E", "_", "U", "R", "L">>)

documentation_url(f) == get_value_as_url(f, <<"D", "O", "C", "U", "M", "E", "N", "T", "A", "T", "I", "O", "N", "_", "U", "R", "L">>)

support_url(f) == get_value_as_url(f, <<"S", "U", "P", "P", "O", "R", "T", "_", "U", "R", "L">>)

bug_report_url(f) == get_value_as_url(f, <<"B", "U", "G", "_", "R", "E", "P", "O", "R", "T", "_", "U", "R", "L">>)

privacy_policy_url(f) == get_value_as_url(f, <<"P", "R", "I", "V", "A", "C", "Y", "_", "P", "O", "L", "I", "C", "Y", "_", "U", "R", "L">>)

support_end(f) == get_value_as_date(f, <<"S", "U", "P", "P", "O", "R", "T", "_", "E", "N", "D">>)

logo(f) == get_value(f, <<"L", "O", "G", "O">>)

ansi_color(f) == get_value(f, <<"A", "N", "S", "I", "_", "C", "O", "L", "O", "R">>)

vendor_name(f) == get_value(f, <<"V", "E", "N", "D", "O", "R", "_", "N", "A", "M", "E">>)

vendor_url(f) == get_value_as_url(f, <<"V", "E", "N", "D", "O", "R", "_", "U", "R", "L">>)

default_hostname(f) == get_value(f, <<"D", "E", "F", "A", "U", "L", "T", "_", "H", "O", "S", "T", "N", "A", "M", "E">>)

architecture(f) == get_value(f, <<"A", "R", "C", "H", "I", "T", "E", "C", "T", "U", "R", "E">>)

sysext_level(f) == get_value(f, <<"S", "Y", "S", "E", "X", "T", "_", "L", "E", "V", "E", "L">>)

confext_level(f) == get_value(f, <<"C", "O", "N", "F", "E", "X", "T", "_", "L", "E", "V", "E", "L">>)

sysext_scope(f) == get_value_as_list(f, <<"S", "Y", "S", "E", "X", "T", "_", "S", "C", "O", "P", "E">>)

confext_scope(f) == get_value_as_list(f, <<"C", "O", "N", "F", "E", "X", "T", "_", "S", "C", "O", "P", "E">>)

portable_prefixes(f) == get_value_as_list(f, <<"P", "O", "R", "T", "A", "B", "L", "E", "_", "P", "R", "E", "F", "I", "X", "E", "S">>)

\* The named accessors, by the type they return.
DefaultAccessors == {"name", "id", "pretty_name"}

StrAccessors ==
    {"cpe_name", "variant", "variant_id", "version", "version_id",
     "version_codename", "build_id", "image_id", "image_version", "logo",
     "ansi_color", "vendor_name", "default_hostname", "architecture",
     "sysext_level", "confext_level"}

ListAccessors ==
    {"id_like", "sysext_scope", "confext_scope", "portable_prefixes"}

UrlAccessors ==
    {"home_url", "documentation_url", "support_url", "bug_report_url",
     "privacy_policy_url", "vendor_url"}

DateAccessors ==
    {"support_end"}

Accessors ==
    DefaultAccessors \cup StrAccessors \cup ListAccessors
        \cup UrlAccessors \cup DateAccessors

\* The call of the named accessor a on the Document f.
Accessor(a, f) ==
    CASE a = "name" -> name(f)
      [] a = "id" -> id(f)
      [] a = "pretty_name" -> pretty_name(f)
      [] a = "id_like" -> id_like(f)
      [] a = "cpe_name" -> cpe_name(f)
      [] a = "variant" -> variant(f)
      [] a = "variant_id" -> variant_id(f)
      [] a = "version" -> version(f)
      [] a = "version_id" -> version_id(f)
      [] a = "version_codename" -> version_codename(f)
      [] a = "build_id" -> build_id(f)
      [] a = "image_id" -> image_id(f)
      [] a = "image_version" -> image_version(f)
      [] a = "home_url" -> home_url(f)
      [] a = "documentation_url" -> documentation_url(f)
      [] a = "support_url" -> support_url(f)
      [] a = "bug_report_url" -> bug_report_url(f)
      [] a = "privacy_policy_url" -> privacy_policy_url(f)
      [] a = "support_end" -> support_end(f)
      [] a = "logo" -> logo(f)
      [] a = "ansi_color" -> ansi_color(f)
      [] a = "vendor_name" -> vendor_name(f)
      [] a = "vendor_url" -> vendor_url(f)
      [] a = "default_hostname" -> default_hostname(f)
      [] a = "architecture" -> architecture(f)
      [] a = "sysext_level" -> sysext_level(f)
      [] a = "confext_level" -> confext_level(f)
      [] a = "sysext_scope" -> sysext_scope(f)
      [] a = "confext_scope" -> confext_scope(f)
      [] a = "portable_prefixes" -> portable_prefixes(f)

(***************************************************************************)
(* The inputs.                                                             *)
(***************************************************************************)
\* Every text of at most MaxLen characters of the alphabet.
BoundedLines == UNION {[1..n -> Alphabet] : n \in 0..MaxLen}

\* The lines of test_parse_line (src/entry.rs).
TestLines ==
    { <<>>,
      <<HASH, SP, "c", "o", "m", "m", "e", "n", "t">>,
      <<"A", EQ, "B">>,
      <<"A", EQ, DQ, "B", SP, "C", DQ>>,
      <<"A", EQ, DQ, "B", SP, "C", BS, DQ, BS, DQ, DQ>>,
      <<"A", EQ, SQ, "B", SP, "C", BS, DQ, BS, DQ, SQ>> }

\* A="B\" : a closing quote after a backslash.
ExampleLines == { <<"A", EQ, DQ, "B", BS, DQ>> }

Lines == BoundedLines \cup TestLines \cup ExampleLines

\* The lines an os-release file is made of here: assignments of ID, id,
\* NAME, PRETTY_NAME and of the empty key, a comment, a line without "=",
\* an empty line.
DocLines ==
    { <<"I", "D", EQ, "a">>,
      <<"I", "D", EQ, DQ, "b", DQ>>,
      <<"I", "D", EQ>>,
      <<"i", "d", EQ, "a">>,
      <<"N", "A", "M", "E", EQ, "a">>,
      <<"N", "A", "M", "E", EQ>>,
      <<"P", "R", "E", "T", "T", "Y", "_", "N", "A", "M", "E", EQ, DQ, "b", DQ>>,
      <<"P", "R", "E", "T", "T", "Y", "_", "N", "A", "M", "E", EQ>>,
      <<EQ, "a">>,
      <<HASH, "I", "D", EQ, "a">>,
      <<"I", "D">>,
      <<>> }

\* The keys the caller looks up.
QueryKeys ==
    { <<>>,
      <<"I", "D">>,
      <<"i", "d">>,
      <<"N", "A", "M", "E">>,
      <<"P", "R", "E", "T", "T", "Y", "_", "N", "A", "M", "E">>,
      <<"V", "E", "R", "S", "I", "O", "N">> }

(***************************************************************************)
(* The state machine: the caller either parses one line with               *)
(* OsReleaseLine::from_str and into_entry, or collects lines into an       *)
(* OsRelease and then calls its accessors.                                 *)
(***************************************************************************)
NotParsed == [kind |-> "NotParsed"]
NoRet == [op |-> "none"]

\* The constructors, and the result of one that has not been called.
Constructors == {"iter_str", "iter_string", "from_str", "from_reader", "open"}
NotRun == [ok |-> FALSE, err |-> [kind |-> "NotRun"]]

\* No constructor is called.
IoIdle ==
    /\ src = <<>>
    /\ fsys = {}
    /\ results = [c \in Constructors |-> NotRun]
    /\ cpc = "idle"
    /\ call = "none"
    /\ probed = <<>>
    /\ opens = <<>>
    /\ text = <<>>
    /\ partial = <<>>
    /\ reads = <<>>

InitLine ==
    /\ line \in Lines
    /\ lpc = "start"
    /\ parsed = NotParsed
    /\ entry = None
    /\ lines = <<>>
    /\ fields = <<>>
    /\ pc = "idle"
    /\ ret = NoRet
    /\ IoIdle

InitDoc ==
    /\ line = <<>>
    /\ lpc = "idle"
    /\ parsed = NotParsed
    /\ entry = None
    /\ lines = <<>>
    /\ fields = <<>>
    /\ pc = "collecting"
    /\ ret = NoRet
    /\ IoIdle

Init == InitLine \/ InitDoc

\* OsReleaseLine::from_str(line)
LineFromStr ==
    /\ lpc = "start"
    /\ parsed' = OsReleaseLine_from_str(line)
    /\ lpc' = "parsed"
    /\ UNCHANGED <<line, entry, docVars, ioVars>>

\* line.into_entry()
IntoEntry ==
    /\ lpc = "parsed"
    /\ entry' = into_entry(parsed)
    /\ lpc' = "done"
    /\ UNCHANGED <<line, parsed, docVars, ioVars>>

\* from_iter: the iterator yields one more line.
FromIterNext ==
    /\ pc = "collecting"
    /\ Len(lines) < MaxLines
    /\ \E l \in DocLines :
        /\ lines' = Append(lines, l)
        /\ fields' = collect_line(fields, l)
    /\ UNCHANGED <<pc, ret, lineVars, ioVars>>

\* from_iter: the iterator is exhausted, the OsRelease is returned.
FromIterDone ==
    /\ pc = "collecting"
    /\ pc' = "built"
    /\ UNCHANGED <<lines, fields, ret, lineVars, ioVars>>

\* os_release.get_value(key)
CallGetValue ==
    /\ pc = "built"
    /\ \E k \in QueryKeys :
        ret' = [op |-> "get_value", key |-> k, val |-> get_value(fields, k)]
    /\ UNCHANGED <<lines, fields, pc, lineVars, ioVars>>

\* os_release.entries()
CallEntries ==
    /\ pc = "built"
    /\ ret' = [op |-> "entries", key |-> <<>>, val |-> entries(fields)]
    /\ UNCHANGED <<lines, fields, pc, lineVars, ioVars>>

\* A call of one of the named accessors.
CallAccessor ==
    /\ pc = "built"
    /\ \E a \in Accessors :
        ret' = [op |-> a, key |-> <<>>, val |-> Accessor(a, fields)]
    /\ UNCHANGED <<lines, fields, pc, lineVars, ioVars>>

Next ==
    \/ LineFromStr
    \/ IntoEntry
    \/ FromIterNext
    \/ FromIterDone
    \/ CallGetValue
    \/ CallEntries
    \/ CallAccessor

Spec == Init /\ [][Next]_vars

TypeOK ==
    /\ lpc \in {"idle", "start", "parsed", "done"}
    /\ pc \in {"idle", "collecting", "built"}
    /\ Len(lines) <= MaxLines
    /\ parsed.kind \in {"NotParsed", "Empty", "Entry"}

(***************************************************************************)
(* The typed accessors: an OsRelease collected from at most one line each  *)
(* of ID_LIKE, HOME_URL and SUPPORT_END, then read with the list, URL and  *)
(* date accessors.                                                         *)
(***************************************************************************)
MaxValLen == 3

\* The values of ID_LIKE: every text of at most MaxValLen characters "a",
\* space and tab, and the value "system initrd".
ListValues ==
    UNION {[1..n -> {"a", SP, "\t"}] : n \in 0..MaxValLen}
        \cup { <<"s", "y", "s", "t", "e", "m", SP, "i", "n", "i", "t", "r", "d">> }

ListLines == {<<"I", "D", "_", "L", "I", "K", "E", EQ>> \o v : v \in ListValues}

UrlLines ==
    { <<"H", "O", "M", "E", "_", "U", "R", "L", EQ, "h", "t", "t", "p", ":", "/", "/", "a", "/">>,
      <<"H", "O", "M", "E", "_", "U", "R", "L", EQ, "a">>,
      <<"H", "O", "M", "E", "_", "U", "R", "L", EQ>> }

DateLines ==
    { <<"S", "U", "P", "P", "O", "R", "T", "_", "E", "N", "D", EQ, "2", "0", "2", "4", "-", "0", "2", "-", "2", "9">>,
      <<"S", "U", "P", "P", "O", "R", "T", "_", "E", "N", "D", EQ, "2", "0", "2", "3", "-", "0", "2", "-", "2", "9">>,
      <<"S", "U", "P", "P", "O", "R", "T", "_", "E", "N", "D", EQ>> }

\* No line, or one line of the set.
AtMostOne(S) == {<<>>} \cup {<<l>> : l \in S}

\* The keys the caller hands to the list, URL and date accessors.
TypedKeys ==
    { <<"I", "D", "_", "L", "I", "K", "E">>,
      <<"H", "O", "M", "E", "_", "U", "R", "L">>,
      <<"S", "U", "P", "P", "O", "R", "T", "_", "E", "N", "D">>,
      <<"V", "E", "R", "S", "I", "O", "N">> }

\* from_iter over the lines of a file with typed fields.
FromIterTyped ==
    /\ pc = "collecting"
    /\ \E l \in AtMostOne(ListLines), u \in AtMostOne(UrlLines), d \in AtMostOne(DateLines) :
        /\ lines' = l \o u \o d
        /\ fields' = from_iter(l \o u \o d)
    /\ pc' = "built"
    /\ UNCHANGED <<ret, lineVars, ioVars>>

\* os_release.get_value_as_list(key)
CallGetValueAsList ==
    /\ pc = "built"
    /\ \E k \in TypedKeys :
        ret' = [op |-> "get_value_as_list", key |-> k,
                val |-> get_value_as_list(fields, k)]
    /\ UNCHANGED <<lines, fields, pc, lineVars, ioVars>>

\* A bug: a value that does not parse is removed from the map.
CallGetValueAsUrl_evict ==
    /\ pc = "built"
    /\ \E k \in TypedKeys :
        LET r == get_value_as_url(fields, k) IN
        /\ ret' = [op |-> "get_value_as_url", key |-> k, val |-> r]
        /\ fields' = IF r.ok THEN fields
                     ELSE SubSeq(fields, 1, get_index_of(fields, k) - 1)
                              \o SubSeq(fields, get_index_of(fields, k) + 1, Len(fields))
    /\ UNCHANGED <<lines, pc, lineVars, ioVars>>

\* os_release.get_value_as_url(key)
CallGetValueAsUrl ==
    /\ pc = "built"
    /\ \E k \in TypedKeys :
        ret' = [op |-> "get_value_as_url", key |-> k,
                val |-> get_value_as_url(fields, k)]
    /\ UNCHANGED <<lines, fields, pc, lineVars, ioVars>>

\* os_release.get_value_as_date(key)
CallGetValueAsDate ==
    /\ pc = "built"
    /\ \E k \in TypedKeys :
        ret' = [op |-> "get_value_as_date", key |-> k,
                val |-> get_value_as_date(fields, k)]
    /\ UNCHANGED <<lines, fields, pc, lineVars, ioVars>>

NextTyped ==
    \/ FromIterTyped
    \/ CallGetValue
    \/ CallEntries
    \/ CallAccessor
    \/ CallGetValueAsList
    \/ CallGetValueAsUrl
    \/ CallGetValueAsDate

SpecTyped == InitDoc /\ [][NextTyped]_vars

(***************************************************************************)
(* src/construct.rs: the constructors over a text, a reader and the        *)
(* os-release file.                                                        *)
(***************************************************************************)
MaxSrcLines == 3

LF == "\n"
CR == "\r"

\* The lines a caller collects: entries of the keys A and B, an empty line,
\* a line that ends with a carriage return and a &str with a line feed in it.
SrcLines ==
    { <<"A", EQ, "a">>,
      <<"A", EQ, "b">>,
      <<"B", EQ, "b">>,
      <<>>,
      <<"A", EQ, "a", CR>>,
      <<"B", EQ, "a", LF, "A", EQ, "b">> }

SrcSeqs == UNION {[1..n -> SrcLines] : n \in 0..MaxSrcLines}

\* The content of the os-release file in the runs that call open().
FileSeqs == { <<>>, << <<"A", EQ, "a">> >>, << <<"A", EQ, "a", CR>>, <<"B", EQ, "b">> >> }

\* The lines joined with line feeds: the text handed to from_str and the
\* content of the reader handed to from_reader.
RECURSIVE join(_)
join(ls) ==
    IF ls = <<>> THEN <<>>
    ELSE IF Len(ls) = 1 THEN ls[1]
    ELSE ls[1] \o <<LF>> \o join(Tail(ls))

\* str::lines: the text is split after every line feed; a line loses its
\* final line feed and then a carriage return before it.
RECURSIVE str_lines(_)
str_lines(t) ==
    IF t = <<>> THEN <<>>
    ELSE LET n == find_from(t, LF, 1)
             raw == IF n = 0 THEN t ELSE SubSeq(t, 1, n)
             rest == IF n = 0 THEN <<>> ELSE SubSeq(t, n + 1, Len(t))
             l == IF ends_with(raw, LF)
                  THEN unwrap_or(strip_suffix(SubSeq(raw, 1, Len(raw) - 1), CR),
                                 SubSeq(raw, 1, Len(raw) - 1))
                  ELSE raw
         IN  <<l>> \o str_lines(rest)

\* <OsRelease as FromStr>::from_str
OsRelease_from_str(t) == Ok(from_iter(str_lines(t)))

\* A bug: read_line in place of lines(), so that the line keeps its
\* terminator.
io_lines_keep(t) ==
    LET n == find_from(t, LF, 1) IN
    [line |-> IF n = 0 THEN t ELSE SubSeq(t, 1, n),
     rest |-> IF n = 0 THEN <<>> ELSE SubSeq(t, n + 1, Len(t))]

\* <io::Lines as Iterator>::next on a reader with the non-empty content t
\* ahead: read_line up to and with the next line feed, then the line feed is
\* popped and, when one was popped, a carriage return before it.
io_lines_next(t) ==
    LET n == find_from(t, LF, 1)
        buf == IF n = 0 THEN t ELSE SubSeq(t, 1, n)
        popped == IF ends_with(buf, LF) THEN SubSeq(buf, 1, Len(buf) - 1) ELSE buf
    IN  [line |-> IF ends_with(buf, LF) /\ ends_with(popped, CR)
                  THEN SubSeq(popped, 1, Len(popped) - 1)
                  ELSE popped,
         rest |-> IF n = 0 THEN <<>> ELSE SubSeq(t, n + 1, Len(t))]

\* The candidate paths, and the io::Error values a read or an open returns.
ETC == "/etc/os-release"
USR == "/usr/lib/os-release"
CandidatePaths == <<ETC, USR>>
IoErrors == {"InvalidData", "Other"}

NoOsRelease == [kind |-> "NoOsRelease"]
OpenError(path, e) == [kind |-> "Open", path |-> path, err |-> e]
ReadError(e) == [kind |-> "Read", err |-> e]

\* A bug: /usr/lib/os-release is probed first.
os_release_path_usr_first(fs) ==
    IF USR \in fs THEN [probed |-> <<USR>>, path |-> Some(USR)]
    ELSE IF ETC \in fs THEN [probed |-> <<USR, ETC>>, path |-> Some(ETC)]
    ELSE [probed |-> <<USR, ETC>>, path |-> None]

\* os_release_path: find() calls exists() on the candidates in order and
\* stops at the first that exists.
RECURSIVE find_exists(_, _, _)
find_exists(fs, i, seen) ==
    IF i > Len(CandidatePaths) THEN [probed |-> seen, path |-> None]
    ELSE IF CandidatePaths[i] \in fs
         THEN [probed |-> Append(seen, CandidatePaths[i]), path |-> Some(CandidatePaths[i])]
         ELSE find_exists(fs, i + 1, Append(seen, CandidatePaths[i]))

os_release_path(fs) == find_exists(fs, 1, <<>>)

\* The caller has lines, or there is an os-release file with these lines.
InitIO ==
    /\ line = <<>>
    /\ lpc = "idle"
    /\ parsed = NotParsed
    /\ entry = None
    /\ lines = <<>>
    /\ fields = <<>>
    /\ pc = "idle"
    /\ ret = NoRet
    /\ \/ src \in SrcSeqs /\ fsys = {}
       \/ src \in FileSeqs /\ fsys \in SUBSET {ETC, USR}
    /\ results = [c \in Constructors |-> NotRun]
    /\ cpc = "idle"
    /\ call = "none"
    /\ probed = <<>>
    /\ opens = <<>>
    /\ text = <<>>
    /\ partial = <<>>
    /\ reads = <<>>

\* src.iter().copied().collect::<OsRelease>()
CollectStrs ==
    /\ cpc = "idle"
    /\ results["iter_str"] = NotRun
    /\ results' = [results EXCEPT !["iter_str"] = Ok(from_iter(src))]
    /\ UNCHANGED <<src, fsys, cpc, call, probed, opens, text, partial, reads, lineVars, docVars>>

\* src.into_iter().collect::<OsRelease>() over owned Strings
CollectStrings ==
    /\ cpc = "idle"
    /\ results["iter_string"] = NotRun
    /\ results' = [results EXCEPT !["iter_string"] = Ok(from_iter(src))]
    /\ UNCHANGED <<src, fsys, cpc, call, probed, opens, text, partial, reads, lineVars, docVars>>

\* OsRelease::from_str(&src.join("\n"))
FromStr ==
    /\ cpc = "idle"
    /\ results["from_str"] = NotRun
    /\ results' = [results EXCEPT !["from_str"] = OsRelease_from_str(join(src))]
    /\ UNCHANGED <<src, fsys, cpc, call, probed, opens, text, partial, reads, lineVars, docVars>>

\* OsRelease::from_reader(reader) is entered: the BufReader has the whole
\* content ahead and collect() has an empty map.
FromReaderStart ==
    /\ cpc = "idle"
    /\ results["from_reader"] = NotRun
    /\ call' = "from_reader"
    /\ cpc' = "reading"
    /\ text' = join(src)
    /\ partial' = <<>>
    /\ reads' = <<>>
    /\ UNCHANGED <<src, fsys, results, probed, opens, lineVars, docVars>>

\* OsRelease::open() up to its call of from_reader: os_release_path, then
\* File::open, which the file system lets fail.
Open ==
    /\ cpc = "idle"
    /\ results["open"] = NotRun
    /\ LET p == os_release_path(fsys) IN
        /\ probed' = p.probed
        /\ \/ /\ p.path = None
              /\ results' = [results EXCEPT !["open"] = Err(NoOsRelease)]
              /\ UNCHANGED <<opens, cpc, call, text, partial, reads>>
           \/ /\ p.path # None
              /\ opens' = Append(opens, p.path[1])
              /\ \E e \in IoErrors :
                    results' = [results EXCEPT !["open"] = Err(OpenError(p.path[1], e))]
              /\ UNCHANGED <<cpc, call, text, partial, reads>>
           \/ /\ p.path # None
              /\ opens' = Append(opens, p.path[1])
              /\ call' = "open"
              /\ cpc' = "reading"
              /\ text' = join(src)
              /\ partial' = <<>>
              /\ reads' = <<>>
              /\ UNCHANGED results
    /\ UNCHANGED <<src, fsys, lineVars, docVars>>

\* A bug: a failed read ends the loop and the lines read so far are the
\* Document.
ReadLine_partial ==
    /\ cpc = "reading"
    /\ \/ /\ text # <<>>
          /\ text' = io_lines_next(text).rest
          /\ partial' = collect_line(partial, io_lines_next(text).line)
          /\ reads' = Append(reads, "ok")
          /\ UNCHANGED <<cpc, results>>
       \/ /\ text = <<>>
          /\ reads' = Append(reads, "eof")
          /\ results' = [results EXCEPT ![call] = Ok(partial)]
          /\ cpc' = "idle"
          /\ UNCHANGED <<text, partial>>
       \/ \E e \in IoErrors :
             /\ reads' = Append(reads, e)
             /\ results' = [results EXCEPT ![call] = Ok(partial)]
             /\ cpc' = "idle"
             /\ UNCHANGED <<text, partial>>
    /\ UNCHANGED <<src, fsys, call, probed, opens, lineVars, docVars>>

\* One step of collect::<Result<OsRelease, io::Error>>() over lines(): the
\* next line is read and collected, or the end of the content is met and the
\* map is the result, or the read fails and its error is the result.
ReadLine ==
    /\ cpc = "reading"
    /\ \/ /\ text # <<>>
          /\ text' = io_lines_next(text).rest
          /\ partial' = collect_line(partial, io_lines_next(text).line)
          /\ reads' = Append(reads, "ok")
          /\ UNCHANGED <<cpc, results>>
       \/ /\ text = <<>>
          /\ reads' = Append(reads, "eof")
          /\ results' = [results EXCEPT ![call] = Ok(partial)]
          /\ cpc' = "idle"
          /\ UNCHANGED <<text, partial>>
       \/ \E e \in IoErrors :
             /\ reads' = Append(reads, e)
             /\ results' = [results EXCEPT ![call] = Err(ReadError(e))]
             /\ cpc' = "idle"
             /\ UNCHANGED <<text, partial>>
    /\ UNCHANGED <<src, fsys, call, probed, opens, lineVars, docVars>>

NextIO ==
    \/ CollectStrs
    \/ CollectStrings
    \/ FromStr
    \/ FromReaderStart
    \/ Open
    \/ ReadLine

SpecIO == InitIO /\ [][NextIO]_vars

(***************************************************************************)
(* The properties of the line parser.                                      *)
(***************************************************************************)
HasEq(l) == \E i \in 1..Len(l) : l[i] = EQ

\* The position of the first "=" of a line that has one.
FirstEq(l) == CHOOSE i \in 1..Len(l) : l[i] = EQ /\ \A j \in 1..(i - 1) : l[j] # EQ

\* The text after the first "=" of a line.
RawValue(l) == SubSeq(l, FirstEq(l) + 1, Len(l))

\* The text without its last character when that character is q.
DropClosing(s, q) ==
    IF Len(s) > 0 /\ s[Len(s)] = q THEN SubSeq(s, 1, Len(s) - 1) ELSE s

\* The text without an opening q and the closing q that matches it.
QuoteStripped(raw, q) ==
    IF Len(raw) > 0 /\ raw[1] = q THEN DropClosing(Tail(raw), q) ELSE raw

\* The scan from left to right: a backslash is dropped and the character
\* after it is copied, any other character is copied.
RECURSIVE Scan(_)
Scan(s) ==
    IF s = <<>> THEN <<>>
    ELSE IF Head(s) = BS
         THEN (IF Len(s) = 1 THEN <<>> ELSE <<s[2]>> \o Scan(SubSeq(s, 3, Len(s))))
         ELSE <<Head(s)>> \o Scan(Tail(s))

\* The decoded value of a raw value.
Decoded(raw) ==
    IF Len(raw) > 0 /\ raw[1] = SQ THEN QuoteStripped(raw, SQ)
    ELSE Scan(QuoteStripped(raw, DQ))

LineParsed == lpc \in {"parsed", "done"}

IsEntry == LineParsed /\ parsed.kind = "Entry"

\* C1: a line is classified as Empty if and only if it is empty, starts with
\* "#" or has no "="; every other line yields one Entry, and from_str
\* returns one of the two classifications for every line (no error).
C1_BlankIff ==
    /\ LineParsed =>
        /\ parsed.kind \in {"Empty", "Entry"}
        /\ parsed = Empty <=> (line = <<>> \/ line[1] = HASH \/ ~HasEq(line))
    /\ lpc = "done" =>
        /\ Len(entry) <= 1
        /\ entry = None <=> (line = <<>> \/ line[1] = HASH \/ ~HasEq(line))

\* A line that is neither empty nor a comment is Empty for want of a "=".
C1_Witness ==
    /\ lpc = "done" /\ parsed = Empty /\ entry = None
    /\ line # <<>> /\ line[1] # HASH

\* C2: the key of an Entry is the text before the first "=" of the line,
\* unchanged, and the value is decoded from all the text after that "=",
\* later "=" characters included.
C2_SplitAtFirstEq ==
    IsEntry =>
        /\ HasEq(line)
        /\ parsed.entry.key = SubSeq(line, 1, FirstEq(line) - 1)
        /\ parsed.entry.value = Decoded(RawValue(line))

\* An Entry whose key has a space and whose value has a second "=".
C2_Witness ==
    /\ IsEntry
    /\ parsed.entry.key = <<SP, "A">>
    /\ parsed.entry.value = <<EQ>>

\* C3: the value of an unquoted or double-quoted raw value is the scan of
\* the quote-stripped text in which a backslash is dropped and the character
\* after it copied; A="B C\"\"" decodes to B C"".
C3_Unescape ==
    /\ (IsEntry /\ ~starts_with(RawValue(line), SQ)) =>
           parsed.entry.value = Scan(QuoteStripped(RawValue(line), DQ))
    /\ (LineParsed /\ line = <<"A", EQ, DQ, "B", SP, "C", BS, DQ, BS, DQ, DQ>>) =>
           parsed = Entry(OsReleaseEntry(<<"A">>, <<"B", SP, "C", DQ, DQ>>))

\* The line of the test is parsed.
C3_Witness ==
    /\ lpc = "done"
    /\ line = <<"A", EQ, DQ, "B", SP, "C", BS, DQ, BS, DQ, DQ>>
    /\ entry = Some(OsReleaseEntry(<<"A">>, <<"B", SP, "C", DQ, DQ>>))

\* C4: the value of a raw value that begins with a single quote is the text
\* between the quotes, with every backslash kept; A='B C\"\"' decodes to
\* B C\"\".
C4_SingleQuoteVerbatim ==
    /\ (IsEntry /\ starts_with(RawValue(line), SQ)) =>
           parsed.entry.value = QuoteStripped(RawValue(line), SQ)
    /\ (LineParsed /\ line = <<"A", EQ, SQ, "B", SP, "C", BS, DQ, BS, DQ, SQ>>) =>
           parsed = Entry(OsReleaseEntry(<<"A">>, <<"B", SP, "C", BS, DQ, BS, DQ>>))

\* The line of the test is parsed.
C4_Witness ==
    /\ lpc = "done"
    /\ line = <<"A", EQ, SQ, "B", SP, "C", BS, DQ, BS, DQ, SQ>>
    /\ entry = Some(OsReleaseEntry(<<"A">>, <<"B", SP, "C", BS, DQ, BS, DQ>>))

\* A raw value that starts with a double quote that nothing closes.
Unterminated(raw) ==
    /\ starts_with(raw, DQ)
    /\ Len(raw) >= 2
    /\ ~ends_with(raw, DQ)

\* C5 as stated: the opening double quote of an unterminated raw value is
\* kept as the first character of the decoded value.
C5_LeadingQuoteKept ==
    (IsEntry /\ Unterminated(RawValue(line))) =>
        parsed.entry.value = Scan(RawValue(line))

\* C5, amended: the opening double quote of an unterminated raw value is
\* removed; the decoded value is the scan of the text after it.
C5_LeadingQuoteDropped ==
    (IsEntry /\ Unterminated(RawValue(line))) =>
        parsed.entry.value = Scan(Tail(RawValue(line)))

\* A="A is parsed to the value A.
C5_Witness ==
    /\ lpc = "done"
    /\ line = <<"A", EQ, DQ, "A">>
    /\ entry = Some(OsReleaseEntry(<<"A">>, <<"A">>))

(***************************************************************************)
(* The properties of the Document.                                         *)
(***************************************************************************)
\* The lines of the input that are an Entry of key k.
EntryLinesOf(k) ==
    {i \in 1..Len(lines) :
        /\ lines[i] # <<>> /\ lines[i][1] # HASH /\ HasEq(lines[i])
        /\ SubSeq(lines[i], 1, FirstEq(lines[i]) - 1) = k}

\* The last of a non-empty set of positions.
Last(S) == CHOOSE i \in S : \A j \in S : j <= i

\* C6: get_value(k) returns the decoded value of the last line of the input
\* that is an Entry of key exactly k, and None if and only if the input has
\* no such line.
C6_LastValueWins ==
    (pc = "built" /\ ret.op = "get_value") =>
        /\ ret.val = None <=> EntryLinesOf(ret.key) = {}
        /\ EntryLinesOf(ret.key) # {} =>
               ret.val = Some(Decoded(RawValue(lines[Last(EntryLinesOf(ret.key))])))

\* ID=a, then ID="b": get_value("ID") is b.
C6_Witness ==
    /\ pc = "built"
    /\ lines = << <<"I", "D", EQ, "a">>, <<"I", "D", EQ, DQ, "b", DQ>> >>
    /\ ret = [op |-> "get_value", key |-> <<"I", "D">>, val |-> Some(<<"b">>)]

\* C7 as stated: every Entry of the line parser and every key stored in a
\* Document has a non-empty key.
C7_KeyNeverEmpty ==
    /\ IsEntry => parsed.entry.key # <<>>
    /\ \A i \in 1..Len(fields) : fields[i].key # <<>>

\* C7, amended: every Entry parsed from a line that does not start with "="
\* has a non-empty key, and so has every key stored in a Document built from
\* lines none of which starts with "=".
C7_KeyEmptyOnlyAfterLeadingEq ==
    /\ (IsEntry /\ line[1] # EQ) => parsed.entry.key # <<>>
    /\ (\A j \in 1..Len(lines) : ~starts_with(lines[j], EQ)) =>
           \A i \in 1..Len(fields) : fields[i].key # <<>>

\* A line that starts with a space and a "=": the key is the space.
C7_Witness ==
    /\ lpc = "done" /\ entry # None
    /\ line[1] # EQ /\ entry[1].key = <<SP>>

\* C8: a line =VALUE is an Entry with the empty key, the Document keeps it
\* and get_value("") returns the decoded VALUE.
C8_EmptyKeyRetained ==
    /\ (LineParsed /\ starts_with(line, EQ)) =>
           parsed = Entry(OsReleaseEntry(<<>>, Decoded(Tail(line))))
    /\ \A j \in 1..Len(lines) :
           starts_with(lines[j], EQ) => \E i \in 1..Len(fields) : fields[i].key = <<>>
    /\ (/\ pc = "built" /\ ret.op = "get_value" /\ ret.key = <<>>
        /\ \E j \in 1..Len(lines) : starts_with(lines[j], EQ)) =>
           LET S == {j \in 1..Len(lines) : starts_with(lines[j], EQ)} IN
           ret.val = Some(Decoded(Tail(lines[Last(S)])))

\* =a is in the input and get_value("") is a.
C8_Witness ==
    /\ pc = "built"
    /\ \E j \in 1..Len(lines) : lines[j] = <<EQ, "a">>
    /\ ret = [op |-> "get_value", key |-> <<>>, val |-> Some(<<"a">>)]

(***************************************************************************)
(* The properties of the named accessors.                                  *)
(***************************************************************************)
\* What an accessor returns for a field that is not set.
Absent(a) ==
    IF a \in UrlAccessors \cup DateAccessors THEN Ok(None) ELSE None

CalledNamed == pc = "built" /\ ret.op \in Accessors

\* C9 as stated: on a Document built from an empty input name() and id()
\* return their defaults and every other named accessor returns absent.
C9_OnlyNameAndIdDefault ==
    (CalledNamed /\ lines = <<>>) =>
        /\ ret.op = "name" => ret.val = <<"l", "i", "n", "u", "x">>
        /\ ret.op = "id" => ret.val = <<"l", "i", "n", "u", "x">>
        /\ ret.op \notin {"name", "id"} => ret.val = Absent(ret.op)

\* C9, amended: on a Document built from an empty input name(), id() and
\* pretty_name() return their defaults ("linux", "linux", "Linux") and every
\* other named accessor returns absent.
C9_ThreeDefaults ==
    (CalledNamed /\ lines = <<>>) =>
        /\ ret.op = "name" => ret.val = <<"l", "i", "n", "u", "x">>
        /\ ret.op = "id" => ret.val = <<"l", "i", "n", "u", "x">>
        /\ ret.op = "pretty_name" => ret.val = <<"L", "i", "n", "u", "x">>
        /\ ret.op \notin DefaultAccessors => ret.val = Absent(ret.op)

\* pretty_name() is called on the Document of the empty input.
C9_Witness ==
    /\ pc = "built" /\ lines = <<>> /\ fields = <<>>
    /\ ret.op = "pretty_name"
    /\ ret.val = <<"L", "i", "n", "u", "x">>

\* The keys stored in the map.
Keys(f) == {f[i].key : i \in 1..Len(f)}

\* The value stored in the map for a key that is in it.
Stored(f, k) == f[CHOOSE i \in 1..Len(f) : f[i].key = k].value

\* The stored value of the key when it is present, the literal otherwise.
StoredOr(f, k, literal) == IF k \in Keys(f) THEN Stored(f, k) ELSE literal

\* C10: id() returns the stored value of ID when the key is present and
\* "linux" otherwise, name() the stored value of NAME or "linux",
\* pretty_name() the stored value of PRETTY_NAME or "Linux"; a present key
\* with an empty value returns the empty string.
C10_Defaults ==
    CalledNamed =>
        /\ ret.op = "id" =>
               ret.val = StoredOr(fields, <<"I", "D">>, <<"l", "i", "n", "u", "x">>)
        /\ ret.op = "name" =>
               ret.val = StoredOr(fields, <<"N", "A", "M", "E">>, <<"l", "i", "n", "u", "x">>)
        /\ ret.op = "pretty_name" =>
               ret.val = StoredOr(fields,
                             <<"P", "R", "E", "T", "T", "Y", "_", "N", "A", "M", "E">>,
                             <<"L", "i", "n", "u", "x">>)
        /\ (ret.op = "id" /\ [key |-> <<"I", "D">>, value |-> <<>>] \in
                {fields[i] : i \in 1..Len(fields)}) => ret.val = <<>>

\* ID= is in the input and id() is the empty string.
C10_Witness ==
    /\ pc = "built"
    /\ lines = << <<"I", "D", EQ, "a">>, <<"I", "D", EQ>> >>
    /\ ret.op = "id"
    /\ ret.val = <<>>

(***************************************************************************)
(* The properties of quote stripping and of the iteration order.           *)
(***************************************************************************)
\* The first line of the input that is an Entry of key k.
FirstLineOf(k) == CHOOSE i \in EntryLinesOf(k) : \A j \in EntryLinesOf(k) : i <= j

\* The keys of the Entry lines of the input.
EntryKeys ==
    {SubSeq(lines[i], 1, FirstEq(lines[i]) - 1) :
        i \in {j \in 1..Len(lines) :
                 lines[j] # <<>> /\ lines[j][1] # HASH /\ HasEq(lines[j])}}

\* C15: entries() yields each distinct key of the Entry lines exactly once,
\* in the order of the first occurrence of the keys; a later duplicate
\* replaces the value and leaves the key where it is.
C15_FirstOccurrenceOrder ==
    (pc = "built" /\ ret.op = "entries") =>
        /\ {ret.val[i].key : i \in 1..Len(ret.val)} = EntryKeys
        /\ Len(ret.val) = Cardinality(EntryKeys)
        /\ \A i, j \in 1..Len(ret.val) :
               i < j => FirstLineOf(ret.val[i].key) < FirstLineOf(ret.val[j].key)
        /\ \A i \in 1..Len(ret.val) :
               ret.val[i].value =
                   Decoded(RawValue(lines[Last(EntryLinesOf(ret.val[i].key))]))

\* ID=a, NAME=a, ID="b": entries() is ID with b, then NAME with a.
C15_Witness ==
    /\ pc = "built"
    /\ lines = << <<"I", "D", EQ, "a">>, <<"N", "A", "M", "E", EQ, "a">>,
                  <<"I", "D", EQ, DQ, "b", DQ>> >>
    /\ ret.op = "entries"
    /\ ret.val = << OsReleaseEntry(<<"I", "D">>, <<"b">>),
                    OsReleaseEntry(<<"N", "A", "M", "E">>, <<"a">>) >>

\* C18: the last character of a raw value that starts with a double quote is
\* removed as the closing quote when it is a double quote, also after a
\* backslash, and unescaping then drops the backslash (A="B\" decodes to B);
\* one opening and one closing quote are removed, and a closing character of
\* the other kind of quote stays.
C18_QuoteStrippingIgnoresBackslash ==
    LET raw == RawValue(line)
        inner == SubSeq(raw, 2, Len(raw) - 1)
    IN
    /\ (IsEntry /\ Len(raw) >= 2 /\ starts_with(raw, DQ) /\ ends_with(raw, DQ)) =>
           /\ parsed.entry.value = Scan(inner)
           /\ (ends_with(inner, BS)
                  /\ \A i \in 1..(Len(inner) - 1) : inner[i] # BS) =>
                  parsed.entry.value = SubSeq(inner, 1, Len(inner) - 1)
    /\ (IsEntry /\ Len(raw) >= 2 /\ starts_with(raw, SQ) /\ ends_with(raw, SQ)) =>
           parsed.entry.value = inner
    /\ (IsEntry /\ starts_with(raw, DQ) /\ ends_with(raw, SQ)) =>
           parsed.entry.value = Scan(Tail(raw))
    /\ (IsEntry /\ starts_with(raw, SQ) /\ ends_with(raw, DQ)) =>
           parsed.entry.value = Tail(raw)
    /\ (LineParsed /\ line = <<"A", EQ, DQ, "B", BS, DQ>>) =>
           parsed = Entry(OsReleaseEntry(<<"A">>, <<"B">>))

\* A="B\" is parsed to the value B.
C18_Witness ==
    /\ lpc = "done"
    /\ line = <<"A", EQ, DQ, "B", BS, DQ>>
    /\ entry = Some(OsReleaseEntry(<<"A">>, <<"B">>))

(***************************************************************************)
(* The properties of the list, URL and date accessors.                     *)
(***************************************************************************)
\* The maximal whitespace-free parts of a text, as pairs of positions.
MaxRuns(v) ==
    {r \in (1..Len(v)) \X (1..Len(v)) :
        /\ r[1] <= r[2]
        /\ \A i \in r[1]..r[2] : v[i] \notin Whitespace
        /\ r[1] = 1 \/ v[r[1] - 1] \in Whitespace
        /\ r[2] = Len(v) \/ v[r[2] + 1] \in Whitespace}

\* toks are the maximal whitespace-free parts of v, from left to right.
IsTokensOf(toks, v) ==
    /\ Len(toks) = Cardinality(MaxRuns(v))
    /\ \A j \in 1..Len(toks) :
        /\ toks[j] # <<>>
        /\ \A i \in 1..Len(toks[j]) : toks[j][i] \notin Whitespace
        /\ \E r \in MaxRuns(v) :
            /\ toks[j] = SubSeq(v, r[1], r[2])
            /\ Cardinality({q \in MaxRuns(v) : q[1] < r[1]}) = j - 1

\* val is what the list lookup of key returns on the Document.
IsListOf(val, key) ==
    /\ val = None <=> key \notin Keys(fields)
    /\ key \in Keys(fields) =>
           /\ Len(val) = 1
           /\ IsTokensOf(val[1], Stored(fields, key))

\* The key of each named accessor of a list, a URL or a date.
NamedKey(a) ==
    CASE a = "id_like" -> <<"I", "D", "_", "L", "I", "K", "E">>
      [] a = "sysext_scope" -> <<"S", "Y", "S", "E", "X", "T", "_", "S", "C", "O", "P", "E">>
      [] a = "confext_scope" -> <<"C", "O", "N", "F", "E", "X", "T", "_", "S", "C", "O", "P", "E">>
      [] a = "portable_prefixes" -> <<"P", "O", "R", "T", "A", "B", "L", "E", "_", "P", "R", "E", "F", "I", "X", "E", "S">>
      [] a = "home_url" -> <<"H", "O", "M", "E", "_", "U", "R", "L">>
      [] a = "documentation_url" -> <<"D", "O", "C", "U", "M", "E", "N", "T", "A", "T", "I", "O", "N", "_", "U", "R", "L">>
      [] a = "support_url" -> <<"S", "U", "P", "P", "O", "R", "T", "_", "U", "R", "L">>
      [] a = "bug_report_url" -> <<"B", "U", "G", "_", "R", "E", "P", "O", "R", "T", "_", "U", "R", "L">>
      [] a = "privacy_policy_url" -> <<"P", "R", "I", "V", "A", "C", "Y", "_", "P", "O", "L", "I", "C", "Y", "_", "U", "R", "L">>
      [] a = "vendor_url" -> <<"V", "E", "N", "D", "O", "R", "_", "U", "R", "L">>
      [] a = "support_end" -> <<"S", "U", "P", "P", "O", "R", "T", "_", "E", "N", "D">>

\* The list lookups return what IsListOf says.
ListLookup ==
    /\ (pc = "built" /\ ret.op = "get_value_as_list") => IsListOf(ret.val, ret.key)
    /\ (pc = "built" /\ ret.op \in ListAccessors) => IsListOf(ret.val, NamedKey(ret.op))

\* A list lookup that follows a list lookup of the same key on the same
\* Document returns the same tokens.
ListLookupAgain ==
    (/\ pc = "built"
     /\ ret.op = "get_value_as_list"
     /\ ret'.op = "get_value_as_list"
     /\ ret'.key = ret.key) => ret'.val = ret.val

\* C12: get_value_as_list(key) is absent iff the key is absent; when present
\* it yields, from left to right, the maximal whitespace-free parts of the
\* stored value, each non-empty and free of whitespace; calling it twice on
\* the same Document yields the same tokens.
C12_ListTokens == []ListLookup /\ [][ListLookupAgain]_vars

\* The value "system initrd" yields system, then initrd.
C12_Witness ==
    /\ pc = "built"
    /\ <<"I", "D", "_", "L", "I", "K", "E">> \in Keys(fields)
    /\ Stored(fields, <<"I", "D", "_", "L", "I", "K", "E">>) =
           <<"s", "y", "s", "t", "e", "m", SP, "i", "n", "i", "t", "r", "d">>
    /\ ret.op = "get_value_as_list"
    /\ ret.val = Some(<< <<"s", "y", "s", "t", "e", "m">>,
                         <<"i", "n", "i", "t", "r", "d">> >>)

\* val is what a lookup with the parser parse returns for key: Ok(None)
\* without the key, Ok(Some(parsed)) for a value that parses, the parser's
\* error for a value that does not.
IsParsedOf(val, key, parse(_)) ==
    /\ key \notin Keys(fields) => val = Ok(None)
    /\ (key \in Keys(fields) /\ parse(Stored(fields, key)).ok) =>
           val = Ok(Some(parse(Stored(fields, key)).val))
    /\ (key \in Keys(fields) /\ ~parse(Stored(fields, key)).ok) =>
           /\ ~val.ok
           /\ val = parse(Stored(fields, key))
    /\ ~val.ok => key \in Keys(fields)

\* C13: the URL and date lookups, and the named accessors built on them,
\* return Ok(None) for an absent key, Ok(Some(parsed)) for a present
\* well-formed value and an error for a present malformed value; an error is
\* returned only for a present key.
C13_AbsentIsNotAnError ==
    /\ (pc = "built" /\ ret.op = "get_value_as_url") =>
           IsParsedOf(ret.val, ret.key, Url_parse)
    /\ (pc = "built" /\ ret.op = "get_value_as_date") =>
           IsParsedOf(ret.val, ret.key, NaiveDate_parse_from_str)
    /\ (pc = "built" /\ ret.op \in UrlAccessors) =>
           IsParsedOf(ret.val, NamedKey(ret.op), Url_parse)
    /\ (pc = "built" /\ ret.op \in DateAccessors) =>
           IsParsedOf(ret.val, NamedKey(ret.op), NaiveDate_parse_from_str)

\* HOME_URL=a is in the Document and get_value_as_url("HOME_URL") is an error.
C13_Witness ==
    /\ pc = "built"
    /\ [key |-> <<"H", "O", "M", "E", "_", "U", "R", "L">>, value |-> <<"a">>]
           \in {fields[i] : i \in 1..Len(fields)}
    /\ ret.op = "get_value_as_url"
    /\ ret.key = <<"H", "O", "M", "E", "_", "U", "R", "L">>
    /\ ~ret.val.ok

\* C14: no accessor call changes the Document: over every call, also one
\* that returns an error, the slots of the map (keys, values, order) stay,
\* and so do the entries and the value of every key a caller may ask for.
\* Every accessor reads the map alone, so its later results stay as well.
C14_AccessorsArePure ==
    [][pc = "built" =>
          /\ fields' = fields
          /\ entries(fields') = entries(fields)
          /\ \A k \in QueryKeys \cup TypedKeys :
                 get_value(fields', k) = get_value(fields, k)]_vars

\* A URL lookup has returned an error and the Document still has the
\* malformed HOME_URL and a second field.
C14_Witness ==
    /\ pc = "built"
    /\ ret.op = "get_value_as_url" /\ ~ret.val.ok
    /\ Len(fields) = 3
    /\ fields[2] = [key |-> <<"H", "O", "M", "E", "_", "U", "R", "L">>, value |-> <<"a">>]

(***************************************************************************)
(* The properties of the constructors.                                     *)
(***************************************************************************)
\* The constructors over the caller's lines.
LinePaths == {"iter_str", "iter_string", "from_str", "from_reader"}

\* Every constructor of LinePaths that has returned a Document has returned
\* the same Document: the same slots in the same order.
PathsAgree ==
    \A c, d \in LinePaths :
        (results[c].ok /\ results[d].ok) => results[c].val = results[d].val

\* No line has a line feed in it and no line ends with a carriage return.
PlainLines ==
    \A i \in 1..Len(src) :
        /\ \A j \in 1..Len(src[i]) : src[i][j] # LF
        /\ ~ends_with(src[i], CR)

\* No line has a line feed in it.
NoLineFeed == \A i \in 1..Len(src) : \A j \in 1..Len(src[i]) : src[i][j] # LF

\* C11 as stated: for every sequence of lines, each free of line feeds, the
\* four paths yield equal Documents.
C11_PathsAgree == (fsys = {} /\ NoLineFeed) => PathsAgree

\* C11: for every sequence of lines without a line feed in a line and
\* without a carriage return at the end of a line, collecting the lines as
\* &str, collecting them as String, from_str of the joined text and
\* from_reader of the joined text without a read error yield equal Documents;
\* the first three always return a Document.
C11_PathsAgreeOnPlainLines ==
    /\ (fsys = {} /\ PlainLines) => PathsAgree
    /\ \A c \in {"iter_str", "iter_string", "from_str"} :
           results[c] # NotRun => results[c].ok

\* Three plain lines, the key A twice, and all four paths have returned the
\* Document B=b, A=b.
C11_Witness ==
    /\ src = << <<"B", EQ, "b">>, <<"A", EQ, "a">>, <<"A", EQ, "b">> >>
    /\ \A c \in LinePaths :
           results[c] = Ok(<< [key |-> <<"B">>, value |-> <<"b">>],
                              [key |-> <<"A">>, value |-> <<"b">>] >>)

\* open() has returned, or is reading the file.
OpenCalled == results["open"] # NotRun \/ (cpc = "reading" /\ call = "open")

\* The first candidate path that exists, if any.
FirstExisting ==
    IF ETC \in fsys THEN <<ETC>> ELSE IF USR \in fsys THEN <<USR>> ELSE <<>>

\* What open() has probed and opened, and when it returns NoOsRelease.
OpenProbes ==
    /\ ~OpenCalled => probed = <<>> /\ opens = <<>>
    /\ OpenCalled =>
           /\ probed = IF ETC \in fsys THEN <<ETC>> ELSE <<ETC, USR>>
           /\ opens = FirstExisting
           /\ results["open"] = Err(NoOsRelease) <=> fsys = {}
           /\ (fsys # {} /\ results["open"] # NotRun /\ ~results["open"].ok) =>
                  \/ results["open"].err.kind = "Read"
                  \/ /\ results["open"].err.kind = "Open"
                     /\ results["open"].err.path = FirstExisting[1]
    /\ (cpc = "reading" /\ call = "open") => fsys # {}

\* The step in which open() returns NoOsRelease opens no file and reads no
\* line.
NoOsReleaseStep ==
    (results["open"] = NotRun /\ results'["open"] = Err(NoOsRelease)) =>
        /\ opens' = <<>>
        /\ cpc' = "idle"
        /\ UNCHANGED <<call, text, partial, reads>>

\* C16: open() probes /etc/os-release, then /usr/lib/os-release, and opens
\* the first that exists, so /usr/lib/os-release only without
\* /etc/os-release; when neither exists it returns NoOsRelease with no file
\* opened and no line read, and with a path present its error is never
\* NoOsRelease.
C16_ProbeOrder == []OpenProbes /\ [][NoOsReleaseStep]_vars

\* Only /usr/lib/os-release exists: both paths are probed in order, the
\* second is opened and its Document is returned.
C16_Witness ==
    /\ fsys = {USR}
    /\ probed = <<ETC, USR>>
    /\ opens = <<USR>>
    /\ results["open"] = Ok(<< [key |-> <<"A">>, value |-> <<"a">>] >>)

\* The reader calls: from_reader, and open, which ends in from_reader.
ReaderCalls == {"from_reader", "open"}

\* reads has failures at most in its last place and "eof" at most there.
OnlyLastNotOk == \A i \in 1..(Len(reads) - 1) : reads[i] = "ok"

\* C17: from_reader returns a Document only if every line read succeeds:
\* when a read fails the result is Error::Read with that error and no
\* Document, also no partial one, and no further read is made; a Document is
\* returned at the end of the content and is the one of all lines.
C17_ReadErrorAborts ==
    /\ OnlyLastNotOk
    /\ cpc = "reading" =>
           /\ results[call] = NotRun
           /\ \A i \in 1..Len(reads) : reads[i] = "ok"
    /\ (cpc = "idle" /\ call \in ReaderCalls) =>
           /\ reads # <<>>
           /\ reads[Len(reads)] # "ok"
           /\ reads[Len(reads)] = "eof" =>
                  /\ results[call] = Ok(partial)
                  /\ text = <<>>
                  /\ partial = from_iter(str_lines(join(src)))
           /\ reads[Len(reads)] \in IoErrors =>
                  results[call] = Err(ReadError(reads[Len(reads)]))
           /\ results[call].ok => reads[Len(reads)] = "eof"

\* The first line was read and collected, the second read failed, and
\* from_reader returned Error::Read with that error.
C17_Witness ==
    /\ cpc = "idle"
    /\ call = "from_reader"
    /\ reads = <<"ok", "InvalidData">>
    /\ partial = << [key |-> <<"A">>, value |-> <<"a">>] >>
    /\ text # <<>>
    /\ results["from_reader"] = Err(ReadError("InvalidData"))

====
